---- MODULE Spec2Model ----
(***************************************************************************)
(* Model of the Minesweeper board engine of src/src/game_state.rs:         *)
(* GameState (cells, width, height, mines, has_revealed_any) and its       *)
(* update() handler for the messages Reveal, ToggleMark and                *)
(* RevealSurrounding.                                                      *)
(***************************************************************************)
EXTENDS Integers, Sequences, FiniteSets, TLC

\* ---- bounds of the model ------------------------------------------------
MaxWidth == 2
MaxHeight == 1
MaxMines == 2
MaxMessages == 4

VARIABLES
    cells,              \* GameState.cells : HashMap<Position, Cell>
    width,              \* GameState.width
    height,             \* GameState.height
    mines,              \* GameState.mines
    has_revealed_any,   \* GameState.has_revealed_any
    message,            \* the message update() processed last ("New" after construction)
    before,             \* cells as they were when that message arrived
    starting_position,  \* argument of the one initialize_state call so far, or NoPosition
    processed,          \* number of messages update() has processed (bounded)
    stack,              \* call stack of reveal, innermost frame last (step-wise specification)
    calls,              \* calls of reveal made for the current message
    opened              \* those of them that passed the `if let` and opened a cell

vars == <<cells, width, height, mines, has_revealed_any,
          message, before, starting_position, processed, stack, calls, opened>>

\* what only the step-wise specification moves
flood == <<stack, calls, opened>>

\* ---- data types ---------------------------------------------------------
Mine == [tag |-> "Mine"]
NonMine(n) == [tag |-> "NonMine", neighbours |-> n]

MarkingNone == "None"
Flag == "Flag"
QuestionMark == "QuestionMark"
Marking == {MarkingNone, Flag, QuestionMark}

\* Cell::default()
CellDefault == [is_revealed |-> FALSE, marking |-> MarkingNone, cell_type |-> NonMine(0)]

\* Cell::mine()
CellMine == [CellDefault EXCEPT !.cell_type = Mine]

\* a cycle that never comes back to None
MarkingNextSkipNone(m) ==
    CASE m = MarkingNone -> Flag
      [] m = Flag -> QuestionMark
      [] m = QuestionMark -> Flag

\* Marking::next
MarkingNext(m) ==
    CASE m = MarkingNone -> Flag
      [] m = Flag -> QuestionMark
      [] m = QuestionMark -> MarkingNone

\* Position { row, column }
Position(row, column) == <<row, column>>
NoPosition == <<>>

\* iproduct!(-1..=1, -1..=1) without (0, 0), as (x, y) pairs in iteration order
Offsets == << <<-1, -1>>, <<-1, 0>>, <<-1, 1>>, <<0, -1>>,
              <<0, 1>>, <<1, -1>>, <<1, 0>>, <<1, 1>> >>

\* Position::neighbours : row + y, column + x, in iteration order
neighbours(p) ==
    [i \in 1..Len(Offsets) |-> Position(p[1] + Offsets[i][2], p[2] + Offsets[i][1])]

Range(s) == {s[i] : i \in DOMAIN s}

\* rows and columns swapped
GridPositionsTransposed(w, h) == {Position(r, c) : r \in 0..w, c \in 0..h}

\* the keys GameState::new inserts: column in 0..=width, row in 0..=height
GridPositions(w, h) == {Position(r, c) : r \in 0..h, c \in 0..w}

\* GameState::new
New(w, h, m) == [p \in GridPositions(w, h) |-> CellDefault]

Min(a, b) == IF a <= b THEN a ELSE b

\* a filter that keeps the neighbours of the starting position
EligibleExceptStart(c, start) == {p \in DOMAIN c : p # start}

\* the filter of initialize_state: keys other than the starting position and its neighbours
Eligible(c, start) ==
    {p \in DOMAIN c : p # start /\ p \notin Range(neighbours(start))}

\* a sample drawn with replacement
choose_with_repeats(S, amount) == [1..Min(amount, Cardinality(S)) -> S]

\* IteratorRandom::choose_multiple(rng, amount): any `amount` distinct items in
\* any order, or all of them when there are fewer
choose_multiple(S, amount) ==
    LET k == Min(amount, Cardinality(S))
    IN  {s \in [1..k -> S] : \A i, j \in 1..k : i # j => s[i] # s[j]}

\* an inner loop that stores 1 instead of adding 1
RECURSIVE increment_neighbours_assign(_, _, _)
increment_neighbours_assign(c, ns, i) ==
    IF i > Len(ns) THEN c
    ELSE LET n == ns[i]
             c1 == IF n \in DOMAIN c /\ c[n].cell_type.tag = "NonMine"
                   THEN [c EXCEPT ![n].cell_type = NonMine(1)]
                   ELSE c
         IN  increment_neighbours_assign(c1, ns, i + 1)

\* the inner loop of initialize_state: bump every NonMine neighbour that has a cell
RECURSIVE increment_neighbours(_, _, _)
increment_neighbours(c, ns, i) ==
    IF i > Len(ns) THEN c
    ELSE LET n == ns[i]
             c1 == IF n \in DOMAIN c /\ c[n].cell_type.tag = "NonMine"
                   THEN [c EXCEPT ![n].cell_type = NonMine(c[n].cell_type.neighbours + 1)]
                   ELSE c
         IN  increment_neighbours(c1, ns, i + 1)

\* an iteration that sets cell_type on the existing cell instead of inserting Cell::mine()
place_mine_keeps_marking(c, p) ==
    increment_neighbours([c EXCEPT ![p].cell_type = Mine], neighbours(p), 1)

\* one iteration of `for p in mine_positions`
place_mine(c, p) ==
    increment_neighbours([c EXCEPT ![p] = CellMine], neighbours(p), 1)

\* initialize_state, given the sample the random source produced
RECURSIVE initialize_state(_, _)
initialize_state(c, mine_positions) ==
    IF mine_positions = <<>> THEN c
    ELSE initialize_state(place_mine(c, Head(mine_positions)), Tail(mine_positions))

\* a pattern that does not look at is_revealed
reveal_matches_any_cover(c, position) ==
    position \in DOMAIN c /\ c[position].marking = MarkingNone

\* a pattern that does not look at the marking
reveal_matches_any_marking(c, position) ==
    position \in DOMAIN c /\ ~c[position].is_revealed

\* the patterns of reveal: Some(cell) with is_revealed: false and marking: None
reveal_matches(c, position) ==
    /\ position \in DOMAIN c
    /\ ~c[position].is_revealed
    /\ c[position].marking = MarkingNone

\* a run that opens the neighbours of a zero cell itself and calls reveal on none
RECURSIVE reveal_run_one_ring(_, _)
reveal_run_one_ring(c, todo) ==
    IF todo = <<>> THEN c
    ELSE LET position == Head(todo) IN
         IF reveal_matches(c, position)
         THEN LET ring == IF c[position].cell_type = NonMine(0)
                          THEN {q \in Range(neighbours(position)) : reveal_matches(c, q)}
                          ELSE {}
              IN  reveal_run_one_ring(
                      [q \in DOMAIN c |->
                          IF q = position \/ q \in ring
                          THEN [c[q] EXCEPT !.is_revealed = TRUE] ELSE c[q]],
                      Tail(todo))
         ELSE reveal_run_one_ring(c, Tail(todo))

\* a run that recurses from every NonMine cell it opens, whatever its count:
\* the pattern NonMine { .. } instead of NonMine { neighbours: 0 }
RECURSIVE reveal_run_floods_counts(_, _)
reveal_run_floods_counts(c, todo) ==
    IF todo = <<>> THEN c
    ELSE LET position == Head(todo) IN
         IF reveal_matches(c, position)
         THEN LET c1 == [c EXCEPT ![position].is_revealed = TRUE]
              IN  IF c1[position].cell_type.tag = "NonMine"
                  THEN reveal_run_floods_counts(c1, neighbours(position) \o Tail(todo))
                  ELSE reveal_run_floods_counts(c1, Tail(todo))
         ELSE reveal_run_floods_counts(c, Tail(todo))

\* the calls of reveal a loop makes, in call order: `todo` holds the positions
\* still to be passed to reveal, so the neighbours of a zero cell that was just
\* opened go in front of what its callers' loops have left
RECURSIVE reveal_run(_, _)
reveal_run(c, todo) ==
    IF todo = <<>> THEN c
    ELSE LET position == Head(todo) IN
         IF reveal_matches(c, position)
         THEN LET c1 == [c EXCEPT ![position].is_revealed = TRUE]
              IN  IF c1[position].cell_type = NonMine(0)
                  THEN reveal_run(c1, neighbours(position) \o Tail(todo))
                  ELSE reveal_run(c1, Tail(todo))
         ELSE reveal_run(c, Tail(todo))

\* a reveal that opens its own cell and never recurses
reveal_no_flood(c, position) ==
    IF reveal_matches(c, position)
    THEN [c EXCEPT ![position].is_revealed = TRUE]
    ELSE c

\* GameState::reveal
reveal(c, position) == reveal_run(c, <<position>>)

\* a toggle that builds the cell anew: Cell { marking, ..Default::default() }
toggle_mark_rebuilds_cell(c, position) ==
    IF position \in DOMAIN c
    THEN [c EXCEPT ![position] =
             [CellDefault EXCEPT !.marking = MarkingNext(c[position].marking)]]
    ELSE c

\* a toggle that leaves revealed cells alone
toggle_mark_unrevealed_only(c, position) ==
    IF position \in DOMAIN c /\ ~c[position].is_revealed
    THEN [c EXCEPT ![position].marking = MarkingNext(c[position].marking)]
    ELSE c

\* a toggle that also covers the cell it marks
toggle_mark_covers(c, position) ==
    IF position \in DOMAIN c
    THEN [c EXCEPT ![position].marking = MarkingNext(c[position].marking),
                   ![position].is_revealed = FALSE]
    ELSE c

\* GameState::toggle_mark
toggle_mark(c, position) ==
    IF position \in DOMAIN c
    THEN [c EXCEPT ![position].marking = MarkingNext(c[position].marking)]
    ELSE c

\* a predicate that takes any marking of a covered cell for a flag
is_marked_any_marking(c, n) ==
    n \in DOMAIN c /\ ~c[n].is_revealed /\ c[n].marking # MarkingNone

\* a predicate that counts a Flag on a revealed cell too
is_marked_ignores_cover(c, n) ==
    n \in DOMAIN c /\ c[n].marking = Flag

\* the partition predicate of reveal_surrounding
is_marked(c, n) ==
    n \in DOMAIN c /\ ~c[n].is_revealed /\ c[n].marking = Flag

\* a chord gated on "at least n flags"
reveal_surrounding_at_least(c, position) ==
    IF /\ position \in DOMAIN c
       /\ c[position].is_revealed
       /\ c[position].cell_type.tag = "NonMine"
    THEN LET IsMarked(n) == is_marked(c, n)
             IsUnmarked(n) == ~is_marked(c, n)
             marked == SelectSeq(neighbours(position), IsMarked)
             unmarked == SelectSeq(neighbours(position), IsUnmarked)
         IN  IF Len(marked) >= c[position].cell_type.neighbours
             THEN reveal_run(c, unmarked)
             ELSE c
    ELSE c

\* a chord that accepts a revealed cell of any type and takes a mine's count as 0
reveal_surrounding_any_type(c, position) ==
    IF /\ position \in DOMAIN c
       /\ c[position].is_revealed
    THEN LET IsMarked(n) == is_marked(c, n)
             IsUnmarked(n) == ~is_marked(c, n)
             marked == SelectSeq(neighbours(position), IsMarked)
             unmarked == SelectSeq(neighbours(position), IsUnmarked)
             count == IF c[position].cell_type.tag = "NonMine"
                      THEN c[position].cell_type.neighbours ELSE 0
         IN  IF Len(marked) = count
             THEN reveal_run(c, unmarked)
             ELSE c
    ELSE c

\* a chord that does not require the target to be revealed
reveal_surrounding_covered_too(c, position) ==
    IF /\ position \in DOMAIN c
       /\ c[position].cell_type.tag = "NonMine"
    THEN LET IsMarked(n) == is_marked(c, n)
             IsUnmarked(n) == ~is_marked(c, n)
             marked == SelectSeq(neighbours(position), IsMarked)
             unmarked == SelectSeq(neighbours(position), IsUnmarked)
         IN  IF Len(marked) = c[position].cell_type.neighbours
             THEN reveal_run(c, unmarked)
             ELSE c
    ELSE c

\* GameState::reveal_surrounding
reveal_surrounding(c, position) ==
    IF /\ position \in DOMAIN c
       /\ c[position].is_revealed
       /\ c[position].cell_type.tag = "NonMine"
    THEN LET IsMarked(n) == is_marked(c, n)
             IsUnmarked(n) == ~is_marked(c, n)
             marked == SelectSeq(neighbours(position), IsMarked)
             unmarked == SelectSeq(neighbours(position), IsUnmarked)
         IN  IF Len(marked) = c[position].cell_type.neighbours
             THEN reveal_run(c, unmarked)
             ELSE c
    ELSE c

\* a Reveal arm that forgets to set has_revealed_any
update_reveal_unrecorded(c, revealed_any, position, mine_positions) ==
    IF ~revealed_any
    THEN [cells |-> reveal(initialize_state(c, mine_positions), position),
          has_revealed_any |-> revealed_any]
    ELSE [cells |-> reveal(c, position), has_revealed_any |-> revealed_any]

\* the Reveal arm of GameState::update
update_reveal(c, revealed_any, position, mine_positions) ==
    IF ~revealed_any
    THEN [cells |-> reveal(initialize_state(c, mine_positions), position),
          has_revealed_any |-> TRUE]
    ELSE [cells |-> reveal(c, position), has_revealed_any |-> revealed_any]

\* ---- the state machine --------------------------------------------------
\* positions a caller may pass: every position of the grid, one outside it that
\* touches the grid (negative row and column) and one outside it that does not
OutsidePositions == {Position(-1, -1), Position(height + 2, width + 2)}
InputPositions == GridPositions(width, height) \cup OutsidePositions

Init ==
    /\ width \in 0..MaxWidth
    /\ height \in 0..MaxHeight
    /\ mines \in 0..MaxMines
    /\ cells = New(width, height, mines)
    /\ has_revealed_any = FALSE
    /\ message = [kind |-> "New", position |-> NoPosition]
    /\ before = cells
    /\ starting_position = NoPosition
    /\ processed = 0
    /\ stack = <<>>
    /\ calls = 0
    /\ opened = 0

\* update(Message::Reveal(position))
Reveal(position) ==
    /\ processed < MaxMessages
    /\ \E mine_positions \in
            (IF has_revealed_any THEN {<<>>}
             ELSE choose_multiple(Eligible(cells, position), mines)) :
          LET r == update_reveal(cells, has_revealed_any, position, mine_positions)
          IN  /\ cells' = r.cells
              /\ has_revealed_any' = r.has_revealed_any
    /\ starting_position' = IF has_revealed_any THEN starting_position ELSE position
    /\ message' = [kind |-> "Reveal", position |-> position]
    /\ before' = cells
    /\ processed' = processed + 1
    /\ UNCHANGED <<width, height, mines, flood>>

\* update(Message::ToggleMark(position))
ToggleMark(position) ==
    /\ processed < MaxMessages
    /\ cells' = toggle_mark(cells, position)
    /\ processed' = processed + 1
    /\ message' = [kind |-> "ToggleMark", position |-> position]
    /\ before' = cells
    /\ UNCHANGED <<width, height, mines, has_revealed_any, starting_position, flood>>

\* update(Message::RevealSurrounding(position))
RevealSurrounding(position) ==
    /\ processed < MaxMessages
    /\ cells' = reveal_surrounding(cells, position)
    /\ message' = [kind |-> "RevealSurrounding", position |-> position]
    /\ before' = cells
    /\ processed' = processed + 1
    /\ UNCHANGED <<width, height, mines, has_revealed_any, starting_position, flood>>

Next ==
    \/ \E position \in InputPositions : Reveal(position)
    \/ \E position \in InputPositions : ToggleMark(position)
    \/ \E position \in InputPositions : RevealSurrounding(position)

Spec == Init /\ [][Next]_vars

\* ---- the rendering: <GameState as canvas::Program>::draw -----------------
\* Option<String>
NoText == <<>>
SomeText(content) == <<content>>

\* a match that tests the cell_type before it tests is_revealed: a mine is
\* drawn as a mine whether it is revealed or not
draw_cell_shows_mines(cell) ==
    IF cell.cell_type = Mine
    THEN [color |-> "ff0000", text |-> SomeText("*")]
    ELSE IF cell.is_revealed /\ cell.cell_type.neighbours > 0
    THEN [color |-> "ffffff", text |-> SomeText(ToString(cell.cell_type.neighbours))]
    ELSE IF cell.is_revealed
    THEN [color |-> "ffffff", text |-> NoText]
    ELSE IF cell.marking = Flag
    THEN [color |-> "ff3010", text |-> SomeText("!")]
    ELSE IF cell.marking = QuestionMark
    THEN [color |-> "208040", text |-> SomeText("?")]
    ELSE [color |-> "404040", text |-> NoText]

\* the `match cell` of draw, arm by arm: the colour of the cell's square and
\* the text put on it ("*" stands for the bullet the source writes on a mine)
draw_cell(cell) ==
    IF cell.is_revealed /\ cell.cell_type = Mine
    THEN [color |-> "ff0000", text |-> SomeText("*")]
    ELSE IF /\ cell.is_revealed
            /\ cell.cell_type.tag = "NonMine"
            /\ cell.cell_type.neighbours > 0
    THEN [color |-> "ffffff", text |-> SomeText(ToString(cell.cell_type.neighbours))]
    ELSE IF cell.is_revealed /\ cell.cell_type = NonMine(0)
    THEN [color |-> "ffffff", text |-> NoText]
    ELSE IF ~cell.is_revealed /\ cell.marking = Flag
    THEN [color |-> "ff3010", text |-> SomeText("!")]
    ELSE IF ~cell.is_revealed /\ cell.marking = QuestionMark
    THEN [color |-> "208040", text |-> SomeText("?")]
    ELSE [color |-> "404040", text |-> NoText]

\* the `cells` layer: one unit square per cell, at (column, row)
draw_cells(c) == [position \in DOMAIN c |-> draw_cell(c[position])]

\* InteractionState
InteractionNone == [tag |-> "None"]
Pressed(button, position) == [tag |-> "Pressed", button |-> button, position |-> position]

\* the `overlay` layer: the squares drawn over the cells while a button is
\* held, or under the cursor (NoPosition: the cursor is outside the canvas)
draw_overlay(c, state, cursor) ==
    IF state.tag = "Pressed"
    THEN IF state.button = "Middle"
         THEN {[position |-> n, color |-> "101010"] :
                  n \in {n \in Range(neighbours(state.position)) :
                            /\ n \in DOMAIN c
                            /\ ~c[n].is_revealed
                            /\ c[n].marking = MarkingNone}}
         ELSE IF state.position \in DOMAIN c /\ ~c[state.position].is_revealed
              THEN {[position |-> state.position, color |-> "101010"]}
              ELSE {}
    ELSE IF cursor \in DOMAIN c /\ ~c[cursor].is_revealed
         THEN {[position |-> cursor, color |-> "ffffff80"]}
         ELSE {}

\* draw: vec![cells, overlay]
draw(c, state, cursor) == <<draw_cells(c), draw_overlay(c, state, cursor)>>

\* the (state, cursor) pairs draw is called with: no button held and the
\* cursor anywhere, or a button held since it was pressed at a position
DrawInputs ==
    {<<InteractionNone, cursor>> : cursor \in InputPositions \cup {NoPosition}}
    \cup {<<Pressed(button, position), position>> :
             button \in {"Left", "Middle", "Right"}, position \in InputPositions}

\* ---- the same machine with reveal's recursion taken one call at a time -----
\* a frame is a call of reveal about to run ("call") or the loop of a caller
\* over the positions still to be revealed ("loop")
CallFrame(position) == [pc |-> "call", position |-> position, todo |-> <<>>]
LoopFrame(position, todo) == [pc |-> "loop", position |-> position, todo |-> todo]

Pop(s) == SubSeq(s, 1, Len(s) - 1)

\* update(Message::Reveal(position)) up to the call of reveal
FloodReveal(position) ==
    /\ stack = <<>>
    /\ processed < MaxMessages
    /\ \E mine_positions \in
            (IF has_revealed_any THEN {<<>>}
             ELSE choose_multiple(Eligible(cells, position), mines)) :
          cells' = IF has_revealed_any THEN cells
                   ELSE initialize_state(cells, mine_positions)
    /\ has_revealed_any' = TRUE
    /\ starting_position' = IF has_revealed_any THEN starting_position ELSE position
    /\ stack' = <<CallFrame(position)>>
    /\ calls' = 0
    /\ opened' = 0
    /\ message' = [kind |-> "Reveal", position |-> position]
    /\ before' = cells
    /\ processed' = processed + 1
    /\ UNCHANGED <<width, height, mines>>

\* update(Message::ToggleMark(position)): no recursion, one step
FloodToggleMark(position) ==
    /\ stack = <<>>
    /\ processed < MaxMessages
    /\ cells' = toggle_mark(cells, position)
    /\ calls' = 0
    /\ opened' = 0
    /\ message' = [kind |-> "ToggleMark", position |-> position]
    /\ before' = cells
    /\ processed' = processed + 1
    /\ UNCHANGED <<width, height, mines, has_revealed_any, starting_position, stack>>

\* update(Message::RevealSurrounding(position)) up to the loop over `unmarked`
FloodRevealSurrounding(position) ==
    /\ stack = <<>>
    /\ processed < MaxMessages
    /\ stack' = IF /\ position \in DOMAIN cells
                   /\ cells[position].is_revealed
                   /\ cells[position].cell_type.tag = "NonMine"
                THEN LET IsMarked(n) == is_marked(cells, n)
                         IsUnmarked(n) == ~is_marked(cells, n)
                         marked == SelectSeq(neighbours(position), IsMarked)
                         unmarked == SelectSeq(neighbours(position), IsUnmarked)
                     IN  IF Len(marked) = cells[position].cell_type.neighbours
                         THEN <<LoopFrame(position, unmarked)>>
                         ELSE <<>>
                ELSE <<>>
    /\ calls' = 0
    /\ opened' = 0
    /\ message' = [kind |-> "RevealSurrounding", position |-> position]
    /\ before' = cells
    /\ processed' = processed + 1
    /\ UNCHANGED <<cells, width, height, mines, has_revealed_any, starting_position>>

\* one call of reveal: return at once, or open the cell and, for a zero count,
\* start the loop over its neighbours
RevealCall ==
    /\ stack # <<>>
    /\ stack[Len(stack)].pc = "call"
    /\ LET position == stack[Len(stack)].position IN
       IF reveal_matches(cells, position)
       THEN /\ cells' = [cells EXCEPT ![position].is_revealed = TRUE]
            /\ opened' = opened + 1
            /\ stack' = IF cells[position].cell_type = NonMine(0)
                        THEN [stack EXCEPT ![Len(stack)] =
                                 LoopFrame(position, neighbours(position))]
                        ELSE Pop(stack)
       ELSE /\ stack' = Pop(stack)
            /\ UNCHANGED <<cells, opened>>
    /\ calls' = calls + 1
    /\ UNCHANGED <<width, height, mines, has_revealed_any, message, before,
                   starting_position, processed>>

\* one turn of `for n in ... { self.reveal(&n) }`: call reveal on the next
\* position, or return when none is left
RevealLoop ==
    /\ stack # <<>>
    /\ stack[Len(stack)].pc = "loop"
    /\ LET todo == stack[Len(stack)].todo IN
       stack' = IF todo = <<>> THEN Pop(stack)
                ELSE Append([stack EXCEPT ![Len(stack)].todo = Tail(todo)],
                            CallFrame(Head(todo)))
    /\ UNCHANGED <<cells, width, height, mines, has_revealed_any, message, before,
                   starting_position, processed, calls, opened>>

NextFlood ==
    \/ \E position \in InputPositions : FloodReveal(position)
    \/ \E position \in InputPositions : FloodToggleMark(position)
    \/ \E position \in InputPositions : FloodRevealSurrounding(position)
    \/ RevealCall
    \/ RevealLoop

SpecFlood == Init /\ [][NextFlood]_vars

\* a call that has started runs on: nothing else is scheduled while it is on the stack
SpecFloodFair == SpecFlood /\ WF_vars(RevealCall \/ RevealLoop)

\* ---- vocabulary of the properties ---------------------------------------
Abs(x) == IF x < 0 THEN -x ELSE x

\* the in-grid cells at Chebyshev distance 1 from p (p may lie outside the grid)
Around(p) == {q \in DOMAIN cells : q # p /\ Abs(q[1] - p[1]) <= 1 /\ Abs(q[2] - p[2]) <= 1}

\* the in-grid part of the safe zone of p
SafeZone(p) == (Around(p) \cup {p}) \cap DOMAIN cells

MineCells == {q \in DOMAIN cells : cells[q].cell_type.tag = "Mine"}

\* C1 (safe zone): once the first Reveal(p) has been processed, neither the cell
\* at p nor any in-grid neighbour of p is a mine, whichever mines were drawn.
C1_SafeZone ==
    has_revealed_any => SafeZone(starting_position) \cap MineCells = {}

\* a first Reveal inside the grid that placed both requested mines
C1_Witness ==
    /\ has_revealed_any
    /\ starting_position \in DOMAIN cells
    /\ Cardinality(SafeZone(starting_position)) >= 4
    /\ Cardinality(MineCells) = 2

\* C2 (mine count): after the first Reveal(p), and ever after, the number of mines
\* is `mines` when that many eligible cells exist and the number of eligible cells
\* (all of them mined) otherwise.
C2_MineCount ==
    has_revealed_any =>
        LET eligible == DOMAIN cells \ SafeZone(starting_position)
        IN  IF mines <= Cardinality(eligible)
            THEN Cardinality(MineCells) = mines
            ELSE MineCells = eligible

\* more mines requested than eligible cells exist, and some cell is eligible
C2_Witness ==
    /\ has_revealed_any
    /\ mines > Cardinality(DOMAIN cells \ SafeZone(starting_position))
    /\ MineCells # {}

\* C3 (adjacency counts): in every reachable state every NonMine cell stores the
\* number of its in-grid Moore neighbours that are mines, for every order in
\* which the drawn mine positions were processed.
C3_AdjacencyCount ==
    \A p \in DOMAIN cells :
        cells[p].cell_type.tag = "NonMine" =>
            cells[p].cell_type.neighbours = Cardinality(Around(p) \cap MineCells)

\* two adjacent mines (the second overwrote a counted cell) next to a cell counting both
C3_Witness ==
    \E m1, m2 \in MineCells :
        /\ m1 # m2
        /\ m2 \in Around(m1)
        /\ \E p \in Around(m1) \cap Around(m2) :
              /\ cells[p].cell_type.tag = "NonMine"
              /\ cells[p].cell_type.neighbours = 2

\* ---- what one message did -------------------------------------------------
\* the board the reveal of the last message started from: the cell types and
\* markings it left (reveal changes neither) with the is_revealed of `before`
Seeded == [q \in DOMAIN cells |-> [cells[q] EXCEPT !.is_revealed = before[q].is_revealed]]

NewlyRevealed == {q \in DOMAIN cells : cells[q].is_revealed /\ ~before[q].is_revealed}

\* a covered cell without a marking
Openable(b, q) == q \in DOMAIN b /\ ~b[q].is_revealed /\ b[q].marking = MarkingNone

\* the least set that contains S and, with every zero-count cell in it, that
\* cell's openable neighbours
RECURSIVE FloodFrom(_, _)
FloodFrom(b, S) ==
    LET T == S \cup {q \in DOMAIN b :
                        /\ Openable(b, q)
                        /\ \E x \in S : b[x].cell_type = NonMine(0) /\ q \in Around(x)}
    IN  IF T = S THEN S ELSE FloodFrom(b, T)

\* the 8-connected component of zero-count cells that contains the cells of S
RECURSIVE ZeroComponent(_, _)
ZeroComponent(b, S) ==
    LET T == S \cup {q \in DOMAIN b :
                        /\ b[q].cell_type = NonMine(0)
                        /\ \E x \in S : q \in Around(x)}
    IN  IF T = S THEN S ELSE ZeroComponent(b, T)

\* the neighbours a chord counts: covered and carrying a Flag (a marking means
\* something only while the cell is covered)
FlaggedAround(b, p) == {q \in Around(p) : ~b[q].is_revealed /\ b[q].marking = Flag}

\* C4 (chord gate): for a revealed NonMine cell p with count n, RevealSurrounding(p)
\* opens the covered neighbours without a marking when exactly n neighbours are
\* flagged, and leaves the whole board as it was when any other number are.
C4_ChordGate ==
    LET p == message.position IN
    (/\ message.kind = "RevealSurrounding"
     /\ p \in DOMAIN before
     /\ before[p].is_revealed
     /\ before[p].cell_type.tag = "NonMine")
    => IF Cardinality(FlaggedAround(before, p)) = before[p].cell_type.neighbours
       THEN \A q \in Around(p) : Openable(before, q) => cells[q].is_revealed
       ELSE cells = before

\* a chord on a cell with count n >= 1 and exactly n flags that opened a neighbour
C4_Witness ==
    LET p == message.position IN
    /\ message.kind = "RevealSurrounding"
    /\ p \in DOMAIN before
    /\ before[p].is_revealed
    /\ before[p].cell_type.tag = "NonMine"
    /\ before[p].cell_type.neighbours >= 1
    /\ Cardinality(FlaggedAround(before, p)) = before[p].cell_type.neighbours
    /\ NewlyRevealed \cap Around(p) # {}

\* C5 (marked cells are protected): a cell that is covered and carries Flag or
\* QuestionMark when Reveal(q) or RevealSurrounding(q) arrives is still covered
\* afterwards, and the flood does not continue through it: every cell the
\* message opened is reached from its target(s) through unmarked zero cells.
C5_MarkedProtected ==
    LET p == message.position
        seeds == IF message.kind = "Reveal"
                 THEN {q \in {p} : Openable(Seeded, q)}
                 ELSE {q \in Around(p) : Openable(Seeded, q)}
    IN  message.kind \in {"Reveal", "RevealSurrounding"} =>
            /\ \A q \in DOMAIN before :
                  (~before[q].is_revealed /\ before[q].marking # MarkingNone)
                      => ~cells[q].is_revealed
            /\ NewlyRevealed \subseteq FloodFrom(Seeded, seeds)

\* a Reveal whose flood stopped at a marked zero cell that has a covered,
\* unmarked, non-mine neighbour behind it
C5_Witness ==
    /\ message.kind = "Reveal"
    /\ \E q \in DOMAIN cells :
          /\ before[q].marking # MarkingNone
          /\ ~cells[q].is_revealed
          /\ cells[q].cell_type = NonMine(0)
          /\ \E x \in Around(q) \cap NewlyRevealed : cells[x].cell_type = NonMine(0)
          /\ \E r \in Around(q) : Openable(cells, r) /\ cells[r].cell_type.tag = "NonMine"

\* C6 as stated (flood-fill coverage): after Reveal(p) on a covered cell with
\* count 0, the whole 8-connected component of zero-count cells around p and
\* every in-grid cell bordering it are revealed. (Taken with p itself unmarked,
\* so that the Reveal does open p; the statement fails even so.)
C6_FloodCoverageAsStated ==
    LET p == message.position IN
    (/\ message.kind = "Reveal"
     /\ Openable(Seeded, p)
     /\ cells[p].cell_type = NonMine(0))
    => LET component == ZeroComponent(cells, {p})
       IN  \A q \in DOMAIN cells :
              (q \in component \/ Around(q) \cap component # {}) => cells[q].is_revealed

\* C6 (flood-fill coverage, amended): after Reveal(p) on a covered, unmarked
\* cell with count 0, every cell reached from p through neighbouring cells that
\* were covered, unmarked and zero-count is revealed, and so is every unmarked
\* in-grid neighbour of such a cell.
C6_FloodCoverage ==
    LET p == message.position IN
    (/\ message.kind = "Reveal"
     /\ Openable(Seeded, p)
     /\ cells[p].cell_type = NonMine(0))
    => \A q \in FloodFrom(Seeded, {p}) : cells[q].is_revealed

\* a flood over a component of at least two zero cells that opened a bordering
\* non-zero cell and stopped there, leaving a cell covered
C6_Witness ==
    LET p == message.position IN
    /\ message.kind = "Reveal"
    /\ Openable(Seeded, p)
    /\ cells[p].cell_type = NonMine(0)
    /\ \E z \in NewlyRevealed \ {p} : cells[z].cell_type = NonMine(0)
    /\ \E x \in NewlyRevealed :
          cells[x].cell_type.tag = "NonMine" /\ cells[x].cell_type.neighbours >= 1
    /\ \E y \in DOMAIN cells : ~cells[y].is_revealed

\* the reveal of the last message, as GameState::reveal computes it in one go
RevealedInOneGo ==
    IF message.kind = "Reveal" THEN reveal(Seeded, message.position)
    ELSE IF message.kind = "RevealSurrounding" THEN reveal_surrounding(before, message.position)
    ELSE cells

\* the step-wise run of a message ends on the board the recursive reveal returns
FloodRefinesReveal == stack = <<>> => cells = RevealedInOneGo

\* C7 (flood-fill termination): while a Reveal or RevealSurrounding message runs,
\* every call of reveal that does not return at once opens one more covered
\* cell, so at most as many calls open a cell as the board has cells; every
\* other call is one of the 8 made for an opened cell or for the target, which
\* bounds the number of calls and the depth of the recursion.
C7_FloodTerminates ==
    /\ opened = Cardinality(NewlyRevealed)
    /\ opened <= Cardinality(DOMAIN cells)
    /\ calls <= 8 * (opened + 1)
    /\ Len(stack) <= 2 * (opened + 1)

\* a flood over a board without mines that opened at least four cells and has returned
C7_Witness ==
    /\ stack = <<>>
    /\ message.kind = "Reveal"
    /\ MineCells = {}
    /\ opened >= 4
    /\ calls > opened
    /\ \A q \in DOMAIN cells : cells[q].is_revealed

\* every message that has started comes to its end
C7_EventuallyReturns == (stack # <<>>) ~> (stack = <<>>)

\* one step of the cycle None -> Flag -> QuestionMark -> None
CycleStep == [m \in Marking |->
                 IF m = MarkingNone THEN Flag
                 ELSE IF m = Flag THEN QuestionMark ELSE MarkingNone]

\* C8 (marking cycle): ToggleMark(p) on an existing cell moves its marking one
\* step along None -> Flag -> QuestionMark -> None and changes nothing else,
\* revealed or not; three ToggleMark(p) in a row give back the board they
\* started from.
C8_MarkingCycle ==
    LET p == message.position IN
    /\ (message.kind = "ToggleMark" /\ p \in DOMAIN before) =>
            cells = [before EXCEPT ![p].marking = CycleStep[before[p].marking]]
    /\ \A q \in InputPositions :
            toggle_mark(toggle_mark(toggle_mark(cells, q), q), q) = cells

\* a revealed cell whose marking has just gone from QuestionMark back to None
C8_Witness ==
    LET p == message.position IN
    /\ message.kind = "ToggleMark"
    /\ p \in DOMAIN before
    /\ before[p].is_revealed
    /\ before[p].marking = QuestionMark
    /\ cells[p].marking = MarkingNone

\* C9 (grid sizing): the cells are exactly the positions with row in 0..height
\* and column in 0..width, (width+1)*(height+1) of them, before and after every
\* message; a new board has only default cells and has_revealed_any = FALSE.
C9_GridSizing ==
    /\ DOMAIN cells = {q \in (0..height) \X (0..width) : TRUE}
    /\ Cardinality(DOMAIN cells) = (width + 1) * (height + 1)
    /\ message.kind = "New" =>
          /\ \A q \in DOMAIN cells :
                /\ ~cells[q].is_revealed
                /\ cells[q].marking = MarkingNone
                /\ cells[q].cell_type = NonMine(0)
          /\ ~has_revealed_any

\* a board wider than high, after mines were placed and a mark was set
C9_Witness ==
    /\ width > height
    /\ height >= 1
    /\ MineCells # {}
    /\ \E q \in DOMAIN cells : cells[q].marking # MarkingNone

CellTypes(b) == [q \in DOMAIN b |-> b[q].cell_type]
MinesOf(b) == {q \in DOMAIN b : b[q].cell_type.tag = "Mine"}

\* C10 (one-shot lazy placement): has_revealed_any never goes back to FALSE;
\* ToggleMark and RevealSurrounding change neither it nor any cell type; the
\* first Reveal sets it and places the mines before it reveals (so what it opens
\* follows the new counts); no later Reveal changes a cell type.
C10_OneShotPlacement ==
    [][ /\ has_revealed_any => has_revealed_any'
        /\ message'.kind \in {"ToggleMark", "RevealSurrounding"} =>
              /\ has_revealed_any' = has_revealed_any
              /\ CellTypes(cells') = CellTypes(cells)
        /\ has_revealed_any => CellTypes(cells') = CellTypes(cells)
        /\ (~has_revealed_any /\ message'.kind = "Reveal") =>
              /\ has_revealed_any'
              /\ MinesOf(cells) = {}
              /\ LET p == message'.position
                     eligible == {q \in DOMAIN cells :
                                     Abs(q[1] - p[1]) > 1 \/ Abs(q[2] - p[2]) > 1}
                 IN  /\ MinesOf(cells') \subseteq eligible
                     /\ Cardinality(MinesOf(cells')) = Min(mines, Cardinality(eligible))
                     /\ \A q \in DOMAIN cells' :
                           cells'[q].is_revealed =>
                               \/ q = p
                               \/ \E x \in DOMAIN cells' :
                                     /\ Abs(q[1] - x[1]) <= 1 /\ Abs(q[2] - x[2]) <= 1
                                     /\ cells'[x].is_revealed
                                     /\ cells'[x].cell_type = NonMine(0)
      ]_vars

\* a second Reveal that opened a cell on a board that already had its mines
C10_Witness ==
    /\ message.kind = "Reveal"
    /\ has_revealed_any
    /\ \E q \in DOMAIN before : before[q].is_revealed
    /\ NewlyRevealed # {}
    /\ MinesOf(before) = MinesOf(cells)
    /\ MinesOf(cells) # {}

\* C11 (cell_type is fixed after placement): in a step taken when has_revealed_any
\* is already TRUE, whatever the message and its position, every cell keeps the
\* cell_type it had: Mine stays Mine, a count stays the same count, and the board
\* keeps its positions.
C11_CellTypeFixed ==
    [][ has_revealed_any =>
            /\ DOMAIN cells' = DOMAIN cells
            /\ \A q \in DOMAIN cells :
                  /\ (cells[q].cell_type = Mine) <=> (cells'[q].cell_type = Mine)
                  /\ cells[q].cell_type.tag = "NonMine" =>
                        /\ cells'[q].cell_type.tag = "NonMine"
                        /\ cells'[q].cell_type.neighbours = cells[q].cell_type.neighbours
      ]_vars

\* after placement a mine was opened and then a mark was toggled on a cell
\* that counts at least one mine
C11_Witness ==
    /\ has_revealed_any
    /\ message.kind = "ToggleMark"
    /\ message.position \in DOMAIN cells
    /\ \E q \in MineCells : cells[q].is_revealed
    /\ cells[message.position].cell_type.tag = "NonMine"
    /\ cells[message.position].cell_type.neighbours >= 1

\* C12 (Reveal on a revealed or marked cell is a no-op): a Reveal(p) that finds
\* the cell at p already revealed, or carrying Flag or QuestionMark, leaves the
\* whole engine state as it was: every cell and has_revealed_any.
C12_RevealDeclinedNoOp ==
    [][ LET p == message'.position IN
        (/\ message'.kind = "Reveal"
         /\ p \in DOMAIN cells
         /\ (cells[p].is_revealed \/ cells[p].marking # MarkingNone))
        => /\ cells' = cells
           /\ has_revealed_any' = has_revealed_any
      ]_vars

\* what does hold of such a Reveal: it opens nothing and leaves the cell at p
\* alone, and once has_revealed_any is TRUE it changes nothing at all
RevealDeclinedOnceSeeded ==
    [][ LET p == message'.position IN
        (/\ message'.kind = "Reveal"
         /\ p \in DOMAIN cells
         /\ (cells[p].is_revealed \/ cells[p].marking # MarkingNone))
        => /\ cells'[p] = cells[p]
           /\ \A q \in DOMAIN cells : cells'[q].is_revealed = cells[q].is_revealed
           /\ has_revealed_any => cells' = cells /\ has_revealed_any'
      ]_vars

\* C13 as stated (ToggleMark on a revealed cell is a no-op): after ToggleMark(p)
\* on a cell that was already revealed, every cell, the marking of p included,
\* is as it was before the message.
C13_ToggleRevealedNoOpAsStated ==
    LET p == message.position IN
    (/\ message.kind = "ToggleMark"
     /\ p \in DOMAIN before
     /\ before[p].is_revealed)
    => cells = before /\ has_revealed_any

\* C13 (amended): ToggleMark(p) on a cell that was already revealed changes
\* that cell's marking, one step along the cycle, and nothing else: the cell
\* stays revealed with its cell_type, every other cell is as it was, and
\* has_revealed_any is still TRUE.
C13_ToggleRevealed ==
    LET p == message.position IN
    (/\ message.kind = "ToggleMark"
     /\ p \in DOMAIN before
     /\ before[p].is_revealed)
    => /\ cells[p].marking # before[p].marking
       /\ cells[p].marking = CycleStep[before[p].marking]
       /\ cells[p].is_revealed
       /\ cells[p].cell_type = before[p].cell_type
       /\ \A q \in DOMAIN cells \ {p} : cells[q] = before[q]
       /\ has_revealed_any

\* a revealed cell that has just been given a Flag
C13_Witness ==
    LET p == message.position IN
    /\ message.kind = "ToggleMark"
    /\ p \in DOMAIN before
    /\ before[p].is_revealed
    /\ before[p].marking = MarkingNone
    /\ cells[p].marking = Flag
    /\ cells[p].is_revealed

\* C14 (chord declined): RevealSurrounding(p) leaves every cell and
\* has_revealed_any as they were whenever p has no cell, the cell at p is
\* covered, or the cell at p is a Mine (revealed or not), however many of its
\* neighbours carry a Flag.
C14_ChordDeclined ==
    [][ LET p == message'.position IN
        (/\ message'.kind = "RevealSurrounding"
         /\ \/ p \notin DOMAIN cells
            \/ ~cells[p].is_revealed
            \/ cells[p].cell_type = Mine)
        => /\ cells' = cells
           /\ has_revealed_any' = has_revealed_any
      ]_vars

\* a chord on a revealed mine with no flagged neighbour and a covered,
\* unmarked neighbour that it left covered
C14_Witness ==
    LET p == message.position IN
    /\ message.kind = "RevealSurrounding"
    /\ p \in DOMAIN before
    /\ before[p].is_revealed
    /\ before[p].cell_type = Mine
    /\ FlaggedAround(before, p) = {}
    /\ \E q \in Around(p) : Openable(before, q) /\ ~cells[q].is_revealed

\* C15 (out-of-grid positions are absorbed): a Reveal(p), ToggleMark(p) or
\* RevealSurrounding(p) whose p lies outside the grid rectangle leaves every
\* cell of the board as it was.
C15_OutOfGridAbsorbed ==
    (/\ message.kind \in {"Reveal", "ToggleMark", "RevealSurrounding"}
     /\ message.position \notin DOMAIN before)
    => cells = before

\* what does hold of a message aimed outside the grid: it opens no cell and
\* changes no marking; ToggleMark and RevealSurrounding change nothing, and
\* neither does Reveal once has_revealed_any is TRUE
OutOfGridAbsorbedOnceSeeded ==
    [][ message'.position \notin DOMAIN cells =>
           /\ \A q \in DOMAIN cells :
                 /\ cells'[q].is_revealed = cells[q].is_revealed
                 /\ cells'[q].cell_type # Mine => cells'[q].marking = cells[q].marking
           /\ (message'.kind # "Reveal" \/ has_revealed_any) =>
                 /\ cells' = cells
                 /\ has_revealed_any' = has_revealed_any
      ]_vars

\* C16 (unseeded board): while has_revealed_any is FALSE only ToggleMark and
\* RevealSurrounding messages have been processed, no cell is a Mine, every
\* count is 0 and no cell is revealed, so the board differs from the new board
\* in markings at most; a RevealSurrounding processed in such a state changed
\* nothing.
C16_UnseededBoard ==
    ~has_revealed_any =>
        /\ message.kind \in {"New", "ToggleMark", "RevealSurrounding"}
        /\ \A q \in DOMAIN cells :
              /\ cells[q].cell_type = NonMine(0)
              /\ ~cells[q].is_revealed
        /\ cells = [q \in DOMAIN New(width, height, mines) |->
                       [New(width, height, mines)[q] EXCEPT !.marking = cells[q].marking]]
        /\ message.kind = "RevealSurrounding" => cells = before

\* before any Reveal: a chord on an in-grid cell with no flagged neighbour and
\* a covered unmarked one, on a board that already carries a mark
C16_Witness ==
    LET p == message.position IN
    /\ ~has_revealed_any
    /\ message.kind = "RevealSurrounding"
    /\ p \in DOMAIN cells
    /\ FlaggedAround(before, p) = {}
    /\ \E q \in Around(p) : Openable(before, q)
    /\ \E q \in DOMAIN cells : cells[q].marking # MarkingNone

\* C17 (placement resets mine cells and only them): from the moment the Reveal
\* that places the mines has placed them (the board had no mine before it),
\* every Mine cell has marking None and is covered, whatever marking it carried
\* before, and every other cell carries the marking it had before that Reveal.
C17_PlacementResetsMines ==
    (message.kind = "Reveal" /\ MinesOf(before) = {}) =>
        \A q \in DOMAIN cells :
            IF cells[q].cell_type = Mine
            THEN cells[q].marking = MarkingNone /\ ~cells[q].is_revealed
            ELSE cells[q].marking = before[q].marking

\* right after placement, before reveal has run: a cell that carried a mark is
\* now an unmarked Mine, and a cell that is no Mine still carries its mark
C17_Witness ==
    /\ message.kind = "Reveal"
    /\ stack = <<CallFrame(message.position)>>
    /\ MinesOf(before) = {}
    /\ \E q \in MineCells : before[q].marking # MarkingNone /\ cells[q].marking = MarkingNone
    /\ \E q \in DOMAIN cells \ MineCells : cells[q].marking # MarkingNone

\* C18 (a mine-free board opens completely): on a board constructed with
\* mines = 0 whose cells are all covered and unmarked, Reveal(p) at any in-grid
\* position p leaves every cell of the board revealed.
C18_MineFreeOpens ==
    LET p == message.position IN
    (/\ message.kind = "Reveal"
     /\ mines = 0
     /\ p \in DOMAIN before
     /\ \A q \in DOMAIN before : Openable(before, q))
    => \A q \in DOMAIN cells : cells[q].is_revealed

\* the case of the spec: width = 2, height = 0, mines = 0, Reveal((0,0)) as the
\* first message, and all three cells are revealed
C18_Witness ==
    /\ width = 2 /\ height = 0 /\ mines = 0
    /\ processed = 1
    /\ message = [kind |-> "Reveal", position |-> Position(0, 0)]
    /\ \A q \in DOMAIN before : Openable(before, q)
    /\ Cardinality(DOMAIN cells) = 3
    /\ \A q \in DOMAIN cells : cells[q].is_revealed

\* the covered neighbours of p that carry a QuestionMark
QuestionedAround(b, p) ==
    {q \in Around(p) : ~b[q].is_revealed /\ b[q].marking = QuestionMark}

\* C19 (the chord tells QuestionMark from Flag): in RevealSurrounding(p) on a
\* revealed NonMine cell with count n only covered neighbours with a Flag are
\* counted against n, a QuestionMark is not. When the count is n the neighbours
\* that become revealed are exactly the covered neighbours with marking None,
\* and whatever else becomes revealed is what their zero-count floods open;
\* otherwise nothing changes. Neighbours with a Flag or a QuestionMark stay
\* covered either way, and no marking changes.
C19_ChordQuestionMark ==
    LET p == message.position IN
    (/\ message.kind = "RevealSurrounding"
     /\ p \in DOMAIN before
     /\ before[p].is_revealed
     /\ before[p].cell_type.tag = "NonMine")
    => LET n == before[p].cell_type.neighbours
           unmarked == {q \in Around(p) : Openable(before, q)}
       IN  /\ IF Cardinality(FlaggedAround(before, p)) = n
              THEN /\ NewlyRevealed \cap Around(p) = unmarked
                   /\ NewlyRevealed = FloodFrom(before, unmarked)
              ELSE NewlyRevealed = {}
           /\ \A q \in FlaggedAround(before, p) \cup QuestionedAround(before, p) :
                 ~cells[q].is_revealed
           /\ \A q \in DOMAIN cells :
                 /\ cells[q].marking = before[q].marking
                 /\ cells[q].cell_type = before[q].cell_type

\* a chord that changed nothing although Flags and QuestionMarks together
\* number n: a QuestionMark made up the count, and a covered unmarked
\* neighbour was there to be opened
C19_Witness ==
    LET p == message.position IN
    /\ message.kind = "RevealSurrounding"
    /\ p \in DOMAIN before
    /\ before[p].is_revealed
    /\ before[p].cell_type.tag = "NonMine"
    /\ QuestionedAround(before, p) # {}
    /\ Cardinality(FlaggedAround(before, p)) + Cardinality(QuestionedAround(before, p))
          = before[p].cell_type.neighbours
    /\ \E q \in Around(p) : Openable(before, q)
    /\ cells = before

\* the board b with the marking of every revealed cell taken off
Stripped(b) ==
    [q \in DOMAIN b |->
        IF b[q].is_revealed THEN [b[q] EXCEPT !.marking = MarkingNone] ELSE b[q]]

IsRevealedOf(b) == [q \in DOMAIN b |-> b[q].is_revealed]

\* C20 (the marking of a revealed cell neither blocks nor counts): a
\* RevealSurrounding(p) on a revealed cell opens the cells it would open if no
\* revealed cell, p included, carried a marking, and changes no marking; where p
\* has a covered unmarked neighbour it opens something exactly when the
\* neighbours that are covered and carry a Flag number n, however many
\* revealed neighbours carry a Flag.
C20_RevealedMarkingIgnored ==
    LET p == message.position IN
    (/\ message.kind = "RevealSurrounding"
     /\ p \in DOMAIN before
     /\ before[p].is_revealed)
    => /\ IsRevealedOf(cells) = IsRevealedOf(reveal_surrounding(Stripped(before), p))
       /\ \A q \in DOMAIN cells : cells[q].marking = before[q].marking
       /\ (/\ before[p].cell_type.tag = "NonMine"
           /\ \E q \in Around(p) : Openable(before, q))
          => (NewlyRevealed # {}
                <=> Cardinality(FlaggedAround(before, p)) = before[p].cell_type.neighbours)

\* a chord that opened a cell while a revealed neighbour of its target carried
\* a Flag that, had it counted, would have made the flags number more than n
C20_Witness ==
    LET p == message.position IN
    /\ message.kind = "RevealSurrounding"
    /\ p \in DOMAIN before
    /\ before[p].is_revealed
    /\ before[p].cell_type.tag = "NonMine"
    /\ before[p].cell_type.neighbours >= 1
    /\ \E q \in Around(p) : before[q].is_revealed /\ before[q].marking = Flag
    /\ Cardinality(FlaggedAround(before, p)) = before[p].cell_type.neighbours
    /\ NewlyRevealed # {}

\* C21 (reveal is monotone): in every step, the first Reveal with its placement
\* included, every cell that is revealed before the step is revealed after it,
\* and the board keeps its positions; so no run of messages covers a cell again.
C21_RevealMonotone ==
    [][ /\ DOMAIN cells' = DOMAIN cells
        /\ \A q \in DOMAIN cells : cells[q].is_revealed => cells'[q].is_revealed
      ]_vars

\* four messages on: a cell opened by an earlier message has since been given
\* a mark and is still revealed, after a further message opened more cells
C21_Witness ==
    /\ processed = MaxMessages
    /\ NewlyRevealed # {}
    /\ MineCells # {}
    /\ \E q \in DOMAIN before :
          /\ before[q].is_revealed
          /\ before[q].marking # MarkingNone
          /\ cells[q].is_revealed

\* the mines a message opened
NewlyRevealedMines == NewlyRevealed \cap MineCells

\* C22 (the flood never uncovers a mine): the only mine a Reveal(p) can open
\* is the cell at p itself; a Reveal that found no mine on the board (the first
\* Reveal among them) opens none, and neither does a Reveal on a NonMine cell.
\* ToggleMark opens nothing. RevealSurrounding(p) opens a mine only among the
\* direct neighbours of p, and only when a covered neighbour that is no mine
\* carries a Flag.
C22_FloodSparesMines ==
    LET p == message.position IN
    /\ message.kind = "Reveal" =>
          /\ NewlyRevealedMines \subseteq {p}
          /\ MinesOf(before) = {} => NewlyRevealedMines = {}
          /\ (p \in DOMAIN cells /\ cells[p].cell_type.tag = "NonMine")
                => NewlyRevealedMines = {}
    /\ message.kind \in {"New", "ToggleMark"} => NewlyRevealed = {}
    /\ message.kind = "RevealSurrounding" =>
          /\ NewlyRevealedMines \subseteq Around(p)
          /\ NewlyRevealedMines # {} =>
                \E f \in FlaggedAround(before, p) : before[f].cell_type.tag = "NonMine"

\* a Reveal whose flood opened at least two cells besides p and stopped in
\* front of a covered, unmarked mine that borders a cell it opened
C22_Witness ==
    LET p == message.position IN
    /\ message.kind = "Reveal"
    /\ Cardinality(NewlyRevealed \ {p}) >= 2
    /\ \E m \in MineCells :
          /\ Openable(cells, m)
          /\ Around(m) \cap NewlyRevealed # {}

\* a chord that opened a mine beside its target
ChordOpenedMine ==
    message.kind = "RevealSurrounding" /\ NewlyRevealedMines # {}

\* the cell types an unrevealed cell may hide: a mine, no mine around, some, all
HiddenTypes == {Mine, NonMine(0), NonMine(1), NonMine(8)}

Covered(b) == {q \in DOMAIN b : ~b[q].is_revealed}

\* boards that differ from b at most in what its unrevealed cells hide: each
\* of them hides the same t, or each hides a mine where b hides none and
\* nothing where b hides a mine
Disguises(b) ==
    {[q \in DOMAIN b |-> IF q \in Covered(b) THEN [b[q] EXCEPT !.cell_type = t] ELSE b[q]] :
        t \in HiddenTypes}
    \cup {[q \in DOMAIN b |->
              IF q \in Covered(b)
              THEN [b[q] EXCEPT !.cell_type = IF b[q].cell_type = Mine THEN NonMine(0) ELSE Mine]
              ELSE b[q]]}

\* two boards that show the same: the same positions, is_revealed and marking
\* everywhere, and the same cell_type wherever the cell is revealed
SameVisible(b1, b2) ==
    /\ DOMAIN b1 = DOMAIN b2
    /\ \A q \in DOMAIN b1 :
          /\ b1[q].is_revealed = b2[q].is_revealed
          /\ b1[q].marking = b2[q].marking
          /\ b1[q].is_revealed => b1[q].cell_type = b2[q].cell_type

\* C23 (hidden content does not reach the rendering): what draw puts on an
\* unrevealed cell is what it puts on a default cell with the same marking,
\* and every board that agrees with the current one on is_revealed, on the
\* markings and on the cell_type of the revealed cells is drawn as the current
\* one is, layer by layer, whatever the button held and wherever the cursor.
C23_HiddenNotDrawn ==
    /\ \A q \in Covered(cells) :
          draw_cell(cells[q]) = draw_cell([CellDefault EXCEPT !.marking = cells[q].marking])
    /\ \A other \in Disguises(cells) :
          SameVisible(cells, other) =>
              /\ draw_cells(other) = draw_cells(cells)
              /\ \A input \in DrawInputs :
                    draw_overlay(other, input[1], input[2])
                        = draw_overlay(cells, input[1], input[2])

\* a board that shows a count on a revealed cell and hides, under two covered
\* squares drawn alike, a mine and a cell that counts it
C23_Witness ==
    LET frame == draw(cells, InteractionNone, NoPosition)[1] IN
    /\ \E r \in DOMAIN cells : cells[r].is_revealed /\ frame[r].text = SomeText("1")
    /\ \E m \in MineCells, c \in DOMAIN cells \ MineCells :
          /\ ~cells[m].is_revealed /\ ~cells[c].is_revealed
          /\ cells[c].cell_type.neighbours >= 1
          /\ frame[m] = frame[c]
    /\ \E f \in Covered(cells) : frame[f].text = SomeText("!")

====
